---- MODULE Spec2Model ----
(***************************************************************************)
(* TickCollector (sub_server/collectors/tick_collector.py) together with   *)
(* the KiwoomWebSocket session it owns (sub_server/api/websocket_client.py)*)
(* as a state machine of the threads the code starts: the caller's thread  *)
(* (start / stop), the websocket thread, the periodic flush threads, the   *)
(* websocket monitor thread and the polling thread.                        *)
(*                                                                         *)
(* Time is a discrete clock with a resolution of five seconds; durations   *)
(* of the code are kept in seconds and converted with Units (sleeps, which *)
(* last at least their argument, are rounded up).  A thread that is not    *)
(* sleeping and not waiting for the network runs before the clock moves    *)
(* (Urgent), so a sleep of d seconds ends d seconds after it began.        *)
(***************************************************************************)
EXTENDS Integers, Sequences, FiniteSets, TLC

\* ---------------------------------------------------------------- bounds
MaxTime == 5        \* clock horizon, in clock units
MaxTicks == 3       \* ticks the upstream delivers in one run
MaxFaults == 1      \* failures the environment injects in one run
MaxOps == 2         \* add_stock / remove_stock calls in one run
MaxOpsTime == 2     \* clock horizon of the runs with add_stock / remove_stock
MaxSessionTime == 65    \* clock horizon of the runs that exhaust the reconnects
MaxSessionFaults == 11  \* failures injected in the runs that exhaust the reconnects
MaxApiCalls == 3    \* calls made on a session that is used on its own
MaxApiTime == 2     \* clock horizon of the runs of such a session
MaxBufferTicks == 5 \* ticks the upstream delivers in the runs that fill the buffer
MaxBufferTime == 2  \* clock horizon of those runs

\* ------------------------------------------------------ program constants
buffer_size == 3              \* TICK_BUFFER_SIZE
flush_interval == 10          \* FLUSH_INTERVAL, seconds
polling_interval == 2         \* POLLING_INTERVAL, seconds
websocket_timeout == 15       \* seconds
max_websocket_failures == 3
monitor_interval == 10        \* time.sleep(10) of monitor_job, seconds
max_reconnect_attempts == 10
max_backoff == 60             \* min(60, 2 ** attempts), seconds

NoTime == -1                  \* None for start_time / last_tick_time
Free == "free"                \* buffer_lock not held

FlushWorkers == {"flush1", "flush2"}
Appenders == {"ws", "poll"}
Threads == {"ctl", "ws", "monitor", "poll"} \cup FlushWorkers

\* the instruments start() is called with
InitialCodes == <<"A", "B">>

\* the instruments add_stock and remove_stock are called with
Codes == {"A", "C"}

\* the lists subscribe_tick and unsubscribe are called with on a session that
\* is used on its own
ApiLists == {<<"A">>, <<"A", "B">>, <<"C">>}

\* no add_stock / remove_stock call has returned yet
NoResult == [op |-> "none", code |-> "none", success |-> FALSE]

VARIABLES
  \* TickCollector fields
  is_running, collection_mode, tick_count, start_time, last_tick_time,
  buffer, buffer_lock, ws_client, stock_codes, websocket_failure_count,
  \* KiwoomWebSocket fields (the one session start() creates)
  is_connected, reconnect_attempts, subscribed_stocks, callbacks,
  \* subscribed_stocks is the very list object stock_codes refers to;
  \* wait_time of the _reconnect that is sleeping (0: none)
  subs_shared, wait_time,
  \* upstream: instruments registered (REG) on the current connection, and
  \* the REG and the REMOVE frames the session has sent on it
  registered, reg_frames, remove_frames,
  \* the result of the last add_stock / remove_stock call, the calls so far,
  \* and the code of an add_stock call that has passed the duplicate test and
  \* has not appended yet ("none": no such call)
  op_result, ops, adding,
  \* polling_job: the instruments requested in the current cycle, and those
  \* tracked without interruption since the cycle began
  cycle_req, cycle_stable,
  \* threads: position, wake-up time of a sleeping thread, polling index
  pc, wake, poll_idx,
  \* TickStorageService: the bulk_insert_ticks calls made so far
  bulk_calls,
  \* clock
  now,
  \* history: next tick id, time the oldest buffered tick was appended,
  \* ticks appended when stop() was called, whether a flush_job has flushed,
  \* failures injected so far
  next_tick, buf_since, stop_appended, timer_fired, faults

collectorVars == <<is_running, collection_mode, tick_count, start_time,
                   last_tick_time, buffer, buffer_lock, ws_client, stock_codes,
                   websocket_failure_count>>
sessionVars == <<is_connected, reconnect_attempts, subscribed_stocks, callbacks,
                 subs_shared, wait_time, registered, reg_frames,
                 remove_frames>>
opVars == <<op_result, ops, adding>>
cycleVars == <<cycle_req, cycle_stable>>
histVars == <<next_tick, buf_since, stop_appended, timer_fired, faults>>
vars == <<collectorVars, sessionVars, opVars, cycleVars, pc, wake, poll_idx,
          bulk_calls, now, histVars>>

\* ------------------------------------------------------------- helpers
Range(s) == {s[i] : i \in 1..Len(s)}

\* seconds -> clock units, rounded up (time.sleep(d) lasts at least d)
Units(secs) == (secs + 4) \div 5

\* seconds elapsed between clock reading t and now
ElapsedSince(t) == (now - t) * 5

Pow2(n) == IF n >= 6 THEN 64 ELSE 2 ^ n

Min(a, b) == IF a <= b THEN a ELSE b

\* mutant of BackoffSeconds: the wait is not capped
BackoffSeconds_Uncapped(attempts) == Pow2(attempts)

\* wait_time of _reconnect
BackoffSeconds(attempts) == Min(max_backoff, Pow2(attempts))

\* threading.Lock: not reentrant, the holder itself cannot take it again
CanAcquire(th) == buffer_lock = Free

\* positions in which a thread is about to enter "with self.buffer_lock" of
\* _flush
FlushPcs == {"lock", "stop_lock", "cap_flush"}

Init ==
  /\ is_running = FALSE
  /\ collection_mode = "websocket"
  /\ tick_count = 0
  /\ start_time = NoTime
  /\ last_tick_time = NoTime
  /\ buffer = <<>>
  /\ buffer_lock = Free
  /\ ws_client = "none"
  /\ stock_codes = <<>>
  /\ websocket_failure_count = 0
  /\ is_connected = FALSE
  /\ reconnect_attempts = 0
  /\ subscribed_stocks = <<>>
  /\ callbacks = {}
  /\ subs_shared = FALSE
  /\ wait_time = 0
  /\ registered = {}
  /\ reg_frames = <<>>
  /\ remove_frames = <<>>
  /\ op_result = NoResult
  /\ ops = 0
  /\ adding = "none"
  /\ cycle_req = <<>>
  /\ cycle_stable = {}
  /\ pc = [th \in Threads |-> IF th = "ctl" THEN "new" ELSE "none"]
  /\ wake = [th \in Threads |-> 0]
  /\ poll_idx = 0
  /\ bulk_calls = <<>>
  /\ now = 0
  /\ next_tick = 1
  /\ buf_since = NoTime
  /\ stop_appended = NoTime
  /\ timer_fired = FALSE
  /\ faults = 0


\* ------------------------------------------------- KiwoomWebSocket session
\* close(): self.ws.close() shuts the socket; the library then reports the
\* end of run_forever to _on_close on the websocket thread.  A thread that is
\* inside a callback, sleeping in _reconnect or finished is not affected.
Close(wspc) == IF wspc \in {"open", "connecting"} THEN "closing" ELSE wspc

\* _on_close followed by _reconnect, up to the sleep of the backoff
OnClose ==
  /\ is_connected' = FALSE
  /\ registered' = {}
  /\ IF reconnect_attempts >= max_reconnect_attempts
       THEN /\ pc' = [pc EXCEPT !["ws"] = "failed"]
            /\ wake' = wake
            /\ wait_time' = wait_time
       ELSE /\ pc' = [pc EXCEPT !["ws"] = "backoff"]
            /\ wait_time' = BackoffSeconds(reconnect_attempts)
            /\ wake' = [wake EXCEPT !["ws"] = now + Units(wait_time')]
  /\ reg_frames' = <<>>
  /\ remove_frames' = <<>>
  /\ UNCHANGED <<reconnect_attempts, subscribed_stocks, callbacks,
                 subs_shared>>

\* the connection attempt succeeds: _on_open, which subscribes again to the
\* remembered list (subscribe_tick(self.subscribed_stocks, None))
WsOpen ==
  /\ pc["ws"] = "connecting"
  /\ is_connected' = TRUE
  /\ reconnect_attempts' = 0
  /\ registered' = Range(subscribed_stocks)
  /\ reg_frames' = IF subscribed_stocks # <<>>
                     THEN <<subscribed_stocks>>
                     ELSE <<>>
  /\ pc' = [pc EXCEPT !["ws"] = "open"]
  /\ UNCHANGED <<collectorVars, subscribed_stocks, callbacks, subs_shared,
                 wait_time, remove_frames, wake, poll_idx,
                 bulk_calls, now, histVars, opVars, cycleVars>>

\* the connection attempt fails: the library calls on_error, then on_close
\* (budget: the failures the run may inject)
ConnectFail(budget) ==
  /\ pc["ws"] = "connecting"
  /\ faults < budget
  /\ faults' = faults + 1
  /\ OnClose
  /\ UNCHANGED <<collectorVars, poll_idx, bulk_calls, now, next_tick,
                 buf_since, stop_appended, timer_fired, opVars, cycleVars>>

WsConnectFail == ConnectFail(MaxFaults)

\* the upstream drops an open connection
Drop(budget) ==
  /\ pc["ws"] = "open"
  /\ faults < budget
  /\ faults' = faults + 1
  /\ OnClose
  /\ UNCHANGED <<collectorVars, poll_idx, bulk_calls, now, next_tick,
                 buf_since, stop_appended, timer_fired, opVars, cycleVars>>

WsDrop == Drop(MaxFaults)

\* the _on_close that follows a close() of the socket
WsOnClose ==
  /\ pc["ws"] = "closing"
  /\ OnClose
  /\ UNCHANGED <<collectorVars, poll_idx, bulk_calls, now, histVars, opVars, cycleVars>>

\* _reconnect after its sleep: count the attempt and connect() again
WsReconnect ==
  /\ pc["ws"] = "backoff"
  /\ wake["ws"] <= now
  /\ reconnect_attempts' = reconnect_attempts + 1
  /\ pc' = [pc EXCEPT !["ws"] = "connecting"]
  /\ wait_time' = 0
  /\ UNCHANGED <<collectorVars, is_connected, subscribed_stocks, callbacks,
                 subs_shared, registered, reg_frames, remove_frames, wake,
                 poll_idx, bulk_calls, now, histVars, opVars, cycleVars>>

\* ------------------------------------------------------------ TickBuffer
\* mutant of AtCapacity: the size of the buffer never triggers a flush
AtCapacity_Never(n) == FALSE

\* on_tick_received: "if len(self.buffer) >= self.buffer_size"
AtCapacity(n) == n >= buffer_size

\* on_tick_received on thread th, which goes on at position ret afterwards.
\* The append runs under buffer_lock; at capacity _flush is called with the
\* lock still held ("cap_flush").  While another thread holds the lock the
\* caller waits ("blocked").
OnTickReceived(th, ret) ==
  IF ~CanAcquire(th)
    THEN /\ pc' = [pc EXCEPT ![th] = "blocked"]
         /\ UNCHANGED <<buffer, tick_count, last_tick_time, buffer_lock,
                        next_tick, buf_since>>
    ELSE /\ buffer' = Append(buffer, next_tick)
         /\ tick_count' = tick_count + 1
         /\ last_tick_time' = now
         /\ next_tick' = next_tick + 1
         /\ buf_since' = IF buffer = <<>> THEN now ELSE buf_since
         /\ IF AtCapacity(Len(buffer) + 1)
              THEN /\ buffer_lock' = th
                   /\ pc' = [pc EXCEPT ![th] = "cap_flush"]
              ELSE /\ buffer_lock' = buffer_lock
                   /\ pc' = [pc EXCEPT ![th] = ret]

\* a REAL frame for a registered instrument arrives: _on_message (limit: the
\* ticks the upstream delivers in the run)
Message(code, limit) ==
  /\ pc["ws"] = "open"
  /\ code \in registered
  /\ code \in callbacks
  /\ next_tick <= limit
  /\ OnTickReceived("ws", "open")
  /\ UNCHANGED <<is_running, collection_mode, start_time, ws_client,
                 stock_codes, websocket_failure_count, sessionVars, wake,
                 poll_idx, bulk_calls, now, stop_appended, timer_fired,
                 faults, opVars, cycleVars>>

WsMessage(code) == Message(code, MaxTicks)

\* where a thread goes on after _flush returned
AfterFlush(th) ==
  CASE th \in FlushWorkers -> IF is_running THEN "sleep" ELSE "done"
    [] th = "ctl" -> "stop_close"
    [] th = "ws" -> "open"
    [] OTHER -> "iter"

\* bulk_insert_ticks(data_to_save) is called only "if data_to_save"
BulkInsert(data_to_save, ok, th) ==
  IF data_to_save # <<>>
    THEN Append(bulk_calls, [batch |-> data_to_save, ok |-> ok, by |-> th])
    ELSE bulk_calls

\* mutant of FlushTake: a batch whose insert failed is put back
FlushTake_Requeue(th, ok) ==
  /\ pc[th] \in FlushPcs
  /\ CanAcquire(th)
  /\ ok \/ (buffer # <<>> /\ faults < MaxFaults)
  /\ faults' = IF ok THEN faults ELSE faults + 1
  /\ buffer' = IF ok THEN <<>> ELSE buffer
  /\ buf_since' = IF ok THEN NoTime ELSE buf_since
  /\ buffer_lock' = Free
  /\ bulk_calls' = BulkInsert(buffer, ok, th)
  /\ pc' = [pc EXCEPT ![th] = AfterFlush(th)]
  /\ wake' = IF th \in FlushWorkers
               THEN [wake EXCEPT ![th] = now + Units(flush_interval)]
               ELSE wake
  /\ UNCHANGED <<is_running, collection_mode, tick_count, start_time,
                 last_tick_time, ws_client, stock_codes,
                 websocket_failure_count, sessionVars, poll_idx, now,
                 next_tick, stop_appended, timer_fired, opVars, cycleVars>>

\* mutant of FlushTake: the buffer is copied but not cleared
FlushTake_NoClear(th, ok) ==
  /\ pc[th] \in FlushPcs
  /\ CanAcquire(th)
  /\ ok \/ (buffer # <<>> /\ faults < MaxFaults)
  /\ faults' = IF ok THEN faults ELSE faults + 1
  /\ buffer' = buffer
  /\ buf_since' = buf_since
  /\ buffer_lock' = Free
  /\ bulk_calls' = BulkInsert(buffer, ok, th)
  /\ pc' = [pc EXCEPT ![th] = AfterFlush(th)]
  /\ wake' = IF th \in FlushWorkers
               THEN [wake EXCEPT ![th] = now + Units(flush_interval)]
               ELSE wake
  /\ UNCHANGED <<is_running, collection_mode, tick_count, start_time,
                 last_tick_time, ws_client, stock_codes,
                 websocket_failure_count, sessionVars, poll_idx, now,
                 next_tick, stop_appended, timer_fired, opVars, cycleVars>>

\* _flush from "with self.buffer_lock" on: copy, clear, bulk insert (ok: the
\* insert returned, ~ok: it raised and the error was logged)
FlushTake(th, ok) ==
  /\ pc[th] \in FlushPcs
  /\ CanAcquire(th)
  /\ ok \/ (buffer # <<>> /\ faults < MaxFaults)
  /\ faults' = IF ok THEN faults ELSE faults + 1
  /\ buffer' = <<>>
  /\ buf_since' = NoTime
  /\ buffer_lock' = Free
  /\ bulk_calls' = BulkInsert(buffer, ok, th)
  /\ pc' = [pc EXCEPT ![th] = AfterFlush(th)]
  /\ wake' = IF th \in FlushWorkers
               THEN [wake EXCEPT ![th] = now + Units(flush_interval)]
               ELSE wake
  /\ UNCHANGED <<is_running, collection_mode, tick_count, start_time,
                 last_tick_time, ws_client, stock_codes,
                 websocket_failure_count, sessionVars, poll_idx, now,
                 next_tick, stop_appended, timer_fired, opVars, cycleVars>>

\* mutant of FlushWake: the timer wakes but never calls _flush
FlushWake_NoFlush(f) ==
  /\ pc[f] = "sleep"
  /\ wake[f] <= now
  /\ pc' = [pc EXCEPT ![f] = IF is_running THEN "sleep" ELSE "done"]
  /\ wake' = [wake EXCEPT ![f] = now + Units(flush_interval)]
  /\ UNCHANGED <<collectorVars, sessionVars, poll_idx, bulk_calls, now,
                 histVars, opVars, cycleVars>>

\* flush_job after its sleep: "if self.buffer: self._flush()", and in _flush
\* "if not self.buffer: return"; then the loop test "while self.is_running"
FlushWake(f) ==
  /\ pc[f] = "sleep"
  /\ wake[f] <= now
  /\ timer_fired' = (timer_fired \/ buffer # <<>>)
  /\ IF buffer # <<>>
       THEN /\ pc' = [pc EXCEPT ![f] = "lock"]
            /\ wake' = wake
       ELSE /\ pc' = [pc EXCEPT ![f] = IF is_running THEN "sleep" ELSE "done"]
            /\ wake' = [wake EXCEPT ![f] = now + Units(flush_interval)]
  /\ UNCHANGED <<collectorVars, sessionVars, poll_idx, bulk_calls, now,
                 next_tick, buf_since, stop_appended, faults, opVars, cycleVars>>

\* ------------------------------------------------------- TickCollector
\* thread slot of the next flush_job (_start_periodic_flush)
NewFlushWorker == IF pc["flush1"] = "none" THEN "flush1" ELSE "flush2"

\* mutant of StartPollingMode: is_running is not set
StartPollingMode_NoRunning(p) ==
  /\ is_running' = is_running
  /\ collection_mode' = "polling"
  /\ start_time' = now
  /\ tick_count' = 0
  /\ pc' = [p EXCEPT ![NewFlushWorker] = "sleep", !["poll"] = "iter"]
  /\ wake' = [wake EXCEPT ![NewFlushWorker] = now + Units(flush_interval)]
  /\ poll_idx' = 1
  /\ cycle_req' = <<>>
  /\ cycle_stable' = Range(stock_codes)

\* mutant of StartPollingMode: the monitor is started as well
StartPollingMode_WithMonitor(p) ==
  /\ is_running' = TRUE
  /\ collection_mode' = "polling"
  /\ start_time' = now
  /\ tick_count' = 0
  /\ pc' = [p EXCEPT ![NewFlushWorker] = "sleep", !["poll"] = "iter",
                     !["monitor"] = "sleep"]
  /\ wake' = [wake EXCEPT ![NewFlushWorker] = now + Units(flush_interval),
                          !["monitor"] = now + Units(monitor_interval)]
  /\ poll_idx' = 1
  /\ cycle_req' = <<>>
  /\ cycle_stable' = Range(stock_codes)

\* _start_polling_mode on top of positions p: the flags, the statistics, a
\* flush_job and the polling_job, which enters its first cycle
StartPollingMode(p) ==
  /\ is_running' = TRUE
  /\ collection_mode' = "polling"
  /\ start_time' = now
  /\ tick_count' = 0
  /\ pc' = [p EXCEPT ![NewFlushWorker] = "sleep", !["poll"] = "iter"]
  /\ wake' = [wake EXCEPT ![NewFlushWorker] = now + Units(flush_interval)]
  /\ poll_idx' = 1
  /\ cycle_req' = <<>>
  /\ cycle_stable' = Range(stock_codes)

\* mutant of StartRejected: start() does not test is_running
StartRejected_Never == FALSE

\* the guard of start(): "if self.is_running: warning; return"
StartRejected == is_running

\* mutant of StartCall: the instruments are stored and the session is created
\* before is_running is looked at
StartCall_NoGuard ==
  /\ pc["ctl"] \in {"new", "idle"}
  /\ stock_codes' = InitialCodes
  /\ ws_client' = "session"
  /\ pc' = [pc EXCEPT !["ctl"] = IF is_running THEN "rejected" ELSE "start_wait",
                      !["ws"] = "connecting"]
  /\ UNCHANGED <<is_running, collection_mode, tick_count, start_time,
                 last_tick_time, buffer, buffer_lock,
                 websocket_failure_count, sessionVars, wake,
                 poll_idx, bulk_calls, now, histVars, opVars, cycleVars>>

\* start(): already running -> warning and return; otherwise remember the
\* instruments, create the session and connect()
StartCall ==
  /\ pc["ctl"] \in {"new", "idle"}
  /\ IF StartRejected
       THEN /\ pc' = [pc EXCEPT !["ctl"] = "rejected"]
            /\ UNCHANGED <<collectorVars, sessionVars, wake, poll_idx,
                           bulk_calls, now, histVars, opVars, cycleVars>>
       ELSE /\ stock_codes' = InitialCodes
            /\ ws_client' = "session"
            /\ pc' = [pc EXCEPT !["ctl"] = "start_wait", !["ws"] = "connecting"]
            /\ UNCHANGED <<is_running, collection_mode, tick_count, start_time,
                           last_tick_time, buffer, buffer_lock,
                           websocket_failure_count, sessionVars, wake,
                           poll_idx, bulk_calls, now, histVars, opVars, cycleVars>>

\* the rejected start() has returned to its caller
StartReturn ==
  /\ pc["ctl"] = "rejected"
  /\ pc' = [pc EXCEPT !["ctl"] = "idle"]
  /\ UNCHANGED <<collectorVars, sessionVars, wake, poll_idx, bulk_calls, now,
                 histVars, opVars, cycleVars>>

\* start() after the wait for the connection
StartFinish ==
  /\ pc["ctl"] = "start_wait"
  /\ IF ~is_connected
       THEN /\ StartPollingMode([pc EXCEPT !["ctl"] = "idle"])
            /\ UNCHANGED <<last_tick_time, sessionVars>>
       ELSE \* subscribe_tick(stock_codes, self.on_tick_received)
            /\ callbacks' = callbacks \cup Range(stock_codes)
            /\ subscribed_stocks' = stock_codes
            /\ subs_shared' = TRUE
            /\ registered' = IF pc["ws"] = "open"
                               THEN registered \cup Range(stock_codes)
                               ELSE registered
            /\ reg_frames' = IF pc["ws"] = "open"
                               THEN Append(reg_frames, stock_codes)
                               ELSE reg_frames
            /\ is_running' = TRUE
            /\ collection_mode' = "websocket"
            /\ start_time' = now
            /\ tick_count' = 0
            /\ last_tick_time' = now
            \* _start_periodic_flush, _start_websocket_monitor
            /\ pc' = [pc EXCEPT !["ctl"] = "idle", ![NewFlushWorker] = "sleep",
                                !["monitor"] = "sleep"]
            /\ wake' = [wake EXCEPT ![NewFlushWorker] = now + Units(flush_interval),
                                    !["monitor"] = now + Units(monitor_interval)]
            /\ UNCHANGED <<is_connected, reconnect_attempts, wait_time,
                           remove_frames, poll_idx, cycleVars>>
  /\ UNCHANGED <<buffer, buffer_lock, ws_client, stock_codes,
                 websocket_failure_count, bulk_calls, now, histVars, opVars>>

\* the two tests of monitor_job after its sleep
ConnectFailureTrigger == websocket_failure_count >= max_websocket_failures

\* mutant of StalenessTrigger: the timeout itself already counts as stale
StalenessTrigger_AtTimeout ==
  /\ last_tick_time # NoTime
  /\ ElapsedSince(last_tick_time) >= websocket_timeout

StalenessTrigger ==
  /\ last_tick_time # NoTime
  /\ ElapsedSince(last_tick_time) > websocket_timeout

\* the loop test of monitor_job
MonitorContinues == is_running /\ collection_mode = "websocket"

\* mutant of MonitorWake: the switch empties the buffer
MonitorWake_DropsBuffer ==
  /\ pc["monitor"] = "sleep"
  /\ wake["monitor"] <= now
  /\ IF ConnectFailureTrigger \/ StalenessTrigger
       THEN IF collection_mode = "polling"
              THEN /\ pc' = [pc EXCEPT !["monitor"] = "done"]
                   /\ UNCHANGED <<is_running, collection_mode, start_time,
                                  tick_count, wake, poll_idx, ws_client,
                                  cycleVars>>
              ELSE \* _switch_to_polling_mode
                   /\ ws_client' = "none"
                   /\ StartPollingMode(
                        [pc EXCEPT !["monitor"] = "done",
                                   !["ws"] = IF ws_client # "none"
                                               THEN Close(pc["ws"])
                                               ELSE pc["ws"]])
       ELSE /\ IF MonitorContinues
                 THEN /\ pc' = [pc EXCEPT !["monitor"] = "sleep"]
                      /\ wake' = [wake EXCEPT !["monitor"] =
                                    now + Units(monitor_interval)]
                 ELSE /\ pc' = [pc EXCEPT !["monitor"] = "done"]
                      /\ wake' = wake
            /\ UNCHANGED <<is_running, collection_mode, start_time,
                           tick_count, poll_idx, ws_client, cycleVars>>
  /\ buffer' = IF (ConnectFailureTrigger \/ StalenessTrigger)
                    /\ collection_mode # "polling"
                 THEN <<>>
                 ELSE buffer
  /\ UNCHANGED <<last_tick_time, buffer_lock, stock_codes,
                 websocket_failure_count, sessionVars, bulk_calls, now,
                 histVars, opVars>>

\* monitor_job after time.sleep(10): a trigger -> _switch_to_polling_mode and
\* break; otherwise the loop test
MonitorWake ==
  /\ pc["monitor"] = "sleep"
  /\ wake["monitor"] <= now
  /\ IF ConnectFailureTrigger \/ StalenessTrigger
       THEN IF collection_mode = "polling"
              THEN /\ pc' = [pc EXCEPT !["monitor"] = "done"]
                   /\ UNCHANGED <<is_running, collection_mode, start_time,
                                  tick_count, wake, poll_idx, ws_client,
                                  cycleVars>>
              ELSE \* _switch_to_polling_mode
                   /\ ws_client' = "none"
                   /\ StartPollingMode(
                        [pc EXCEPT !["monitor"] = "done",
                                   !["ws"] = IF ws_client # "none"
                                               THEN Close(pc["ws"])
                                               ELSE pc["ws"]])
       ELSE /\ IF MonitorContinues
                 THEN /\ pc' = [pc EXCEPT !["monitor"] = "sleep"]
                      /\ wake' = [wake EXCEPT !["monitor"] =
                                    now + Units(monitor_interval)]
                 ELSE /\ pc' = [pc EXCEPT !["monitor"] = "done"]
                      /\ wake' = wake
            /\ UNCHANGED <<is_running, collection_mode, start_time,
                           tick_count, poll_idx, ws_client, cycleVars>>
  /\ UNCHANGED <<last_tick_time, buffer, buffer_lock, stock_codes,
                 websocket_failure_count, sessionVars, bulk_calls, now,
                 histVars, opVars>>

\* polling_job, one step of "for stock_code in self.stock_codes": the list is
\* exhausted -> sleep; not running -> break, then sleep; otherwise the
\* snapshot request is sent
PollRequest ==
  /\ pc["poll"] = "iter"
  /\ IF poll_idx > Len(stock_codes) \/ ~is_running
       THEN /\ pc' = [pc EXCEPT !["poll"] = "sleep"]
            /\ wake' = [wake EXCEPT !["poll"] = now + Units(polling_interval)]
            /\ cycle_req' = cycle_req
       ELSE /\ pc' = [pc EXCEPT !["poll"] = "await"]
            /\ wake' = wake
            /\ cycle_req' = Append(cycle_req, stock_codes[poll_idx])
  /\ cycle_stable' = cycle_stable
  /\ UNCHANGED <<collectorVars, sessionVars, poll_idx, bulk_calls, now,
                 histVars, opVars>>

\* get_current_price returns: return_code 0 -> a tick for on_tick_received,
\* another return_code -> warning, an exception -> the cycle is left and the
\* job sleeps
PollResponse(outcome) ==
  /\ pc["poll"] = "await"
  /\ poll_idx' = poll_idx + 1
  /\ CASE outcome = "ok" ->
            /\ next_tick <= MaxTicks
            /\ OnTickReceived("poll", "iter")
            /\ UNCHANGED <<wake, faults>>
       [] outcome = "fail" ->
            /\ pc' = [pc EXCEPT !["poll"] = "iter"]
            /\ UNCHANGED <<buffer, tick_count, last_tick_time, buffer_lock,
                           next_tick, buf_since, wake, faults>>
       [] OTHER ->
            /\ faults < MaxFaults
            /\ faults' = faults + 1
            /\ pc' = [pc EXCEPT !["poll"] = "sleep"]
            /\ wake' = [wake EXCEPT !["poll"] = now + Units(polling_interval)]
            /\ UNCHANGED <<buffer, tick_count, last_tick_time, buffer_lock,
                           next_tick, buf_since>>
  /\ UNCHANGED <<is_running, collection_mode, start_time, ws_client,
                 stock_codes, websocket_failure_count, sessionVars,
                 bulk_calls, now, stop_appended, timer_fired, opVars,
                 cycleVars>>

\* polling_job after its sleep: the loop test, then the next cycle
PollWake ==
  /\ pc["poll"] = "sleep"
  /\ wake["poll"] <= now
  /\ IF is_running /\ collection_mode = "polling"
       THEN /\ pc' = [pc EXCEPT !["poll"] = "iter"]
            /\ poll_idx' = 1
            /\ cycle_req' = <<>>
            /\ cycle_stable' = Range(stock_codes)
       ELSE /\ pc' = [pc EXCEPT !["poll"] = "done"]
            /\ UNCHANGED <<poll_idx, cycleVars>>
  /\ UNCHANGED <<collectorVars, sessionVars, wake, bulk_calls, now, histVars, opVars>>

\* stop(): "if not self.is_running: return", "self.is_running = False"
StopCall ==
  /\ pc["ctl"] = "idle"
  /\ is_running
  /\ is_running' = FALSE
  /\ pc' = [pc EXCEPT !["ctl"] = "stop_check"]
  /\ stop_appended' = next_tick - 1
  /\ UNCHANGED <<collection_mode, tick_count, start_time, last_tick_time,
                 buffer, buffer_lock, ws_client, stock_codes,
                 websocket_failure_count, sessionVars, wake, poll_idx,
                 bulk_calls, now, next_tick, buf_since, timer_fired, faults, opVars, cycleVars>>

\* mutant of StopCheck: stop() does not flush
StopCheck_NoFlush ==
  /\ pc["ctl"] = "stop_check"
  /\ pc' = [pc EXCEPT !["ctl"] = "stop_close"]
  /\ UNCHANGED <<collectorVars, sessionVars, wake, poll_idx, bulk_calls, now,
                 histVars, opVars, cycleVars>>

\* stop(): self._flush() up to "if not self.buffer: return"
StopCheck ==
  /\ pc["ctl"] = "stop_check"
  /\ pc' = [pc EXCEPT !["ctl"] = IF buffer = <<>> THEN "stop_close"
                                                  ELSE "stop_lock"]
  /\ UNCHANGED <<collectorVars, sessionVars, wake, poll_idx, bulk_calls, now,
                 histVars, opVars, cycleVars>>

\* stop(): "if self.ws_client: self.ws_client.close()", storage.close()
StopClose ==
  /\ pc["ctl"] = "stop_close"
  /\ pc' = [pc EXCEPT !["ctl"] = "stopped",
                      !["ws"] = IF ws_client # "none" THEN Close(pc["ws"])
                                                      ELSE pc["ws"]]
  /\ UNCHANGED <<collectorVars, sessionVars, wake, poll_idx, bulk_calls, now,
                 histVars, opVars, cycleVars>>

\* ------------------------------------------- add_stock / remove_stock
\* ws.send reaches the upstream: the connection is up (the websocket thread
\* may be inside a callback); on a closed socket send raises
SocketUp == pc["ws"] \in {"open", "cap_flush", "blocked"}

\* list.remove(c): the first occurrence of c is taken out
IndexOf(s, c) ==
  CHOOSE i \in 1..Len(s) : s[i] = c /\ \A j \in 1..(i - 1) : s[j] # c

RemoveFirst(s, c) ==
  SubSeq(s, 1, IndexOf(s, c) - 1) \o SubSeq(s, IndexOf(s, c) + 1, Len(s))

\* mutant of AlreadyTracked: add_stock does not look for a duplicate
AlreadyTracked_Never(code) == FALSE

\* add_stock: "if stock_code in self.stock_codes"
AlreadyTracked(code) == code \in Range(stock_codes)

\* mutant of SubscribeOnAdd: the collection mode is not looked at
SubscribeOnAdd_AnyMode == ws_client # "none" /\ is_connected

\* add_stock: the test that guards subscribe_tick
SubscribeOnAdd ==
  collection_mode = "websocket" /\ ws_client # "none" /\ is_connected

\* add_stock(code), called by the dashboard: a tracked code is refused;
\* otherwise the code is appended to stock_codes (and with it to
\* subscribed_stocks while that is the same list) and, in websocket mode with
\* a connected session, subscribe_tick([code], self.on_tick_received) is
\* called, which registers the callback, REPLACES subscribed_stocks by [code]
\* and sends the REG frame (an exception of send is caught and logged)
AddStock(code) ==
  /\ ops < MaxOps
  /\ adding = "none"
  /\ ops' = ops + 1
  /\ IF AlreadyTracked(code)
       THEN /\ op_result' = [op |-> "add", code |-> code, success |-> FALSE]
            /\ UNCHANGED <<stock_codes, subscribed_stocks, subs_shared,
                           callbacks, registered, reg_frames>>
       ELSE /\ op_result' = [op |-> "add", code |-> code, success |-> TRUE]
            /\ stock_codes' = Append(stock_codes, code)
            /\ IF SubscribeOnAdd
                 THEN /\ callbacks' = callbacks \cup {code}
                      /\ subscribed_stocks' = <<code>>
                      /\ subs_shared' = FALSE
                      /\ registered' = IF SocketUp THEN registered \cup {code}
                                                   ELSE registered
                      /\ reg_frames' = IF SocketUp
                                         THEN Append(reg_frames, <<code>>)
                                         ELSE reg_frames
                 ELSE /\ subscribed_stocks' = IF subs_shared
                                                THEN stock_codes'
                                                ELSE subscribed_stocks
                      /\ UNCHANGED <<subs_shared, callbacks, registered,
                                     reg_frames>>
  /\ UNCHANGED <<is_running, collection_mode, tick_count, start_time,
                 last_tick_time, buffer, buffer_lock, ws_client,
                 websocket_failure_count, is_connected, reconnect_attempts,
                 wait_time, remove_frames, adding, cycleVars, pc, wake,
                 poll_idx, bulk_calls, now, histVars>>

\* remove_stock(code), called by the dashboard: an untracked code is refused;
\* otherwise the code is taken out of stock_codes (and with it out of
\* subscribed_stocks while that is the same list); the session is not told
RemoveStock(code) ==
  /\ ops < MaxOps
  /\ adding = "none"
  /\ ops' = ops + 1
  /\ IF code \notin Range(stock_codes)
       THEN /\ op_result' = [op |-> "remove", code |-> code, success |-> FALSE]
            /\ UNCHANGED <<stock_codes, subscribed_stocks, cycle_stable>>
       ELSE /\ op_result' = [op |-> "remove", code |-> code, success |-> TRUE]
            /\ stock_codes' = RemoveFirst(stock_codes, code)
            /\ subscribed_stocks' = IF subs_shared THEN stock_codes'
                                                   ELSE subscribed_stocks
            /\ cycle_stable' = cycle_stable \ {code}
  /\ UNCHANGED <<is_running, collection_mode, tick_count, start_time,
                 last_tick_time, buffer, buffer_lock, ws_client,
                 websocket_failure_count, is_connected, reconnect_attempts,
                 callbacks, subs_shared, wait_time, registered, reg_frames,
                 remove_frames, adding, cycle_req, pc, wake, poll_idx, bulk_calls, now, histVars>>

\* add_stock(code) up to the lookup of the name (get_current_price): a
\* tracked code is refused at once; otherwise the call goes on to the lookup,
\* during which the thread of start() can run
AddStockBegin(code) ==
  /\ ops < MaxOps
  /\ adding = "none"
  /\ IF AlreadyTracked(code)
       THEN /\ ops' = ops + 1
            /\ op_result' = [op |-> "add", code |-> code, success |-> FALSE]
            /\ adding' = adding
       ELSE /\ adding' = code
            /\ UNCHANGED <<ops, op_result>>
  /\ UNCHANGED <<collectorVars, sessionVars, cycleVars, pc, wake, poll_idx,
                 bulk_calls, now, histVars>>

\* add_stock from "self.stock_codes.append(stock_code)" on: the append to the
\* list stock_codes refers to now, and the subscription
AddStockEnd ==
  /\ adding # "none"
  /\ adding' = "none"
  /\ ops' = ops + 1
  /\ op_result' = [op |-> "add", code |-> adding, success |-> TRUE]
  /\ stock_codes' = Append(stock_codes, adding)
  /\ IF SubscribeOnAdd
       THEN /\ callbacks' = callbacks \cup {adding}
            /\ subscribed_stocks' = <<adding>>
            /\ subs_shared' = FALSE
            /\ registered' = IF SocketUp THEN registered \cup {adding}
                                         ELSE registered
            /\ reg_frames' = IF SocketUp THEN Append(reg_frames, <<adding>>)
                                         ELSE reg_frames
       ELSE /\ subscribed_stocks' = IF subs_shared THEN stock_codes'
                                                   ELSE subscribed_stocks
            /\ UNCHANGED <<subs_shared, callbacks, registered, reg_frames>>
  /\ UNCHANGED <<is_running, collection_mode, tick_count, start_time,
                 last_tick_time, buffer, buffer_lock, ws_client,
                 websocket_failure_count, is_connected, reconnect_attempts,
                 wait_time, remove_frames, cycleVars, pc, wake, poll_idx,
                 bulk_calls, now, histVars>>

\* ------------------------------- KiwoomWebSocket used on its own (its API)
\* mutant of SubscribeTick: the connection is not looked at
SubscribeTick_Unguarded(codes, withCallback) ==
  /\ callbacks' = IF withCallback THEN callbacks \cup Range(codes)
                                  ELSE callbacks
  /\ subscribed_stocks' = codes
  /\ subs_shared' = FALSE
  /\ registered' = IF SocketUp THEN registered \cup Range(codes)
                               ELSE registered
  /\ reg_frames' = IF SocketUp THEN Append(reg_frames, codes) ELSE reg_frames

\* subscribe_tick(stock_codes, callback): nothing while not connected;
\* otherwise the callback (if one is given) is entered for every code, the
\* list is remembered and the REG frame is sent (send raises on a socket that
\* is already shut)
SubscribeTick(codes, withCallback) ==
  IF ~is_connected
    THEN UNCHANGED <<callbacks, subscribed_stocks, subs_shared, registered,
                     reg_frames>>
    ELSE /\ callbacks' = IF withCallback THEN callbacks \cup Range(codes)
                                         ELSE callbacks
         /\ subscribed_stocks' = codes
         /\ subs_shared' = FALSE
         /\ registered' = IF SocketUp THEN registered \cup Range(codes)
                                      ELSE registered
         /\ reg_frames' = IF SocketUp THEN Append(reg_frames, codes)
                                      ELSE reg_frames

\* unsubscribe(stock_codes): nothing while not connected; otherwise the
\* REMOVE frame is sent
Unsubscribe(codes) ==
  IF ~is_connected
    THEN UNCHANGED <<registered, remove_frames>>
    ELSE /\ registered' = IF SocketUp THEN registered \ Range(codes)
                                      ELSE registered
         /\ remove_frames' = IF SocketUp THEN Append(remove_frames, codes)
                                         ELSE remove_frames

\* a caller other than the collector constructs a session and calls connect()
ApiConnect ==
  /\ pc["ctl"] = "new"
  /\ pc' = [pc EXCEPT !["ctl"] = "api", !["ws"] = "connecting"]
  /\ UNCHANGED <<collectorVars, sessionVars, opVars, cycleVars, wake, poll_idx,
                 bulk_calls, now, histVars>>

\* that caller calls subscribe_tick
ApiSubscribe(codes, withCallback) ==
  /\ pc["ctl"] = "api"
  /\ ops < MaxApiCalls
  /\ ops' = ops + 1
  /\ op_result' = [op |-> "subscribe", code |-> codes[1],
                   success |-> is_connected]
  /\ SubscribeTick(codes, withCallback)
  /\ UNCHANGED <<collectorVars, is_connected, reconnect_attempts, wait_time,
                 remove_frames, adding, cycleVars, pc, wake, poll_idx,
                 bulk_calls, now, histVars>>

\* that caller calls unsubscribe
ApiUnsubscribe(codes) ==
  /\ pc["ctl"] = "api"
  /\ ops < MaxApiCalls
  /\ ops' = ops + 1
  /\ op_result' = [op |-> "unsubscribe", code |-> codes[1],
                   success |-> is_connected]
  /\ Unsubscribe(codes)
  /\ UNCHANGED <<collectorVars, is_connected, reconnect_attempts,
                 subscribed_stocks, callbacks, subs_shared, wait_time,
                 reg_frames, adding, cycleVars, pc, wake, poll_idx, bulk_calls,
                 now, histVars>>

\* that caller calls close() on a session whose socket is in use
ApiClose ==
  /\ pc["ctl"] = "api"
  /\ pc["ws"] \in {"open", "connecting"}
  /\ ops < MaxApiCalls
  /\ ops' = ops + 1
  /\ op_result' = [op |-> "close", code |-> "none", success |-> is_connected]
  /\ pc' = [pc EXCEPT !["ws"] = Close(pc["ws"])]
  /\ UNCHANGED <<collectorVars, sessionVars, adding, cycleVars, wake, poll_idx,
                 bulk_calls, now, histVars>>

\* --------------------------------------------------------------- clock
\* some thread has a step to take that does not wait for the clock: it is
\* running, or its sleep is over, or it waits for a network answer (which
\* comes within one clock unit)
Urgent ==
  \/ pc["ctl"] \in {"start_wait", "rejected", "stop_check", "stop_close"}
  \/ \E th \in Threads : pc[th] \in FlushPcs /\ CanAcquire(th)
  \/ \E th \in FlushWorkers \cup {"monitor", "poll"} :
       pc[th] = "sleep" /\ wake[th] <= now
  \/ pc["poll"] \in {"iter", "await"}
  \/ pc["ws"] \in {"connecting", "closing"}
  \/ pc["ws"] = "backoff" /\ wake["ws"] <= now
  \/ adding # "none"

\* the clock moves on while no thread has a step to take (limit: the horizon
\* of the run)
Advance(limit) ==
  /\ pc["ctl"] # "new"
  /\ now < limit
  /\ ~Urgent
  /\ now' = now + 1
  /\ UNCHANGED <<collectorVars, sessionVars, opVars, cycleVars, pc, wake,
                 poll_idx, bulk_calls, histVars>>

Tick == Advance(MaxTime)

Next ==
  \/ StartCall
  \/ StartReturn
  \/ StartFinish
  \/ WsOpen
  \/ WsConnectFail
  \/ WsDrop
  \/ WsOnClose
  \/ WsReconnect
  \/ \E code \in Range(InitialCodes) : WsMessage(code)
  \/ \E th \in Threads, ok \in BOOLEAN : FlushTake(th, ok)
  \/ \E f \in FlushWorkers : FlushWake(f)
  \/ MonitorWake
  \/ PollRequest
  \/ \E outcome \in {"ok", "fail", "raise"} : PollResponse(outcome)
  \/ PollWake
  \/ StopCall
  \/ StopCheck
  \/ StopClose
  \/ Tick

Spec == Init /\ [][Next]_vars

\* runs, up to stop(), in which the dashboard adds and removes instruments
InstrumentNext ==
  \/ StartCall
  \/ StartReturn
  \/ StartFinish
  \/ WsOpen
  \/ WsConnectFail
  \/ WsDrop
  \/ WsReconnect
  \/ \E code \in Codes \cup Range(InitialCodes) : WsMessage(code)
  \/ \E th \in Threads, ok \in BOOLEAN : FlushTake(th, ok)
  \/ \E f \in FlushWorkers : FlushWake(f)
  \/ MonitorWake
  \/ PollRequest
  \/ \E outcome \in {"ok", "fail", "raise"} : PollResponse(outcome)
  \/ PollWake
  \/ \E code \in Codes : AddStock(code)
  \/ \E code \in Codes : RemoveStock(code)
  \/ Advance(MaxOpsTime)

InstrumentSpec == Init /\ [][InstrumentNext]_vars

\* runs without ticks and without stop() that last long enough to exhaust
\* the reconnects (the upstream drops an open connection only while fewer than
\* MaxFaults failures have happened; connection attempts fail up to
\* MaxSessionFaults times)
SessionNext ==
  \/ StartCall
  \/ StartFinish
  \/ WsOpen
  \/ ConnectFail(MaxSessionFaults)
  \/ Drop(MaxFaults)
  \/ WsOnClose
  \/ WsReconnect
  \/ \E f \in FlushWorkers : FlushWake(f)
  \/ MonitorWake
  \/ PollRequest
  \/ PollResponse("fail")
  \/ PollWake
  \/ Advance(MaxSessionTime)

SessionSpec == Init /\ [][SessionNext]_vars


\* runs in which an add_stock call of the dashboard thread overlaps with the
\* steps of the other threads (start() included)
OverlapNext ==
  \/ StartCall
  \/ StartFinish
  \/ WsOpen
  \/ WsConnectFail
  \/ WsReconnect
  \/ \E code \in Codes \cup Range(InitialCodes) : WsMessage(code)
  \/ \E th \in Threads, ok \in BOOLEAN : FlushTake(th, ok)
  \/ \E f \in FlushWorkers : FlushWake(f)
  \/ MonitorWake
  \/ PollRequest
  \/ \E outcome \in {"ok", "fail"} : PollResponse(outcome)
  \/ PollWake
  \/ \E code \in Codes : AddStockBegin(code)
  \/ AddStockEnd
  \/ \E code \in Codes : RemoveStock(code)
  \/ Advance(MaxOpsTime)

OverlapSpec == Init /\ [][OverlapNext]_vars

\* runs of up to ten seconds in which the upstream delivers more ticks than the
\* buffer holds
BufferNext ==
  \/ StartCall
  \/ StartFinish
  \/ WsOpen
  \/ WsOnClose
  \/ WsReconnect
  \/ \E code \in Range(InitialCodes) : Message(code, MaxBufferTicks)
  \/ \E th \in Threads, ok \in BOOLEAN : FlushTake(th, ok)
  \/ \E f \in FlushWorkers : FlushWake(f)
  \/ MonitorWake
  \/ PollRequest
  \/ \E outcome \in {"ok", "fail", "raise"} : PollResponse(outcome)
  \/ PollWake
  \/ StopCall
  \/ StopCheck
  \/ StopClose
  \/ Advance(MaxBufferTime)

BufferSpec == Init /\ [][BufferNext]_vars

\* runs of a session that a caller uses on its own
ApiNext ==
  \/ ApiConnect
  \/ WsOpen
  \/ WsConnectFail
  \/ WsDrop
  \/ WsOnClose
  \/ WsReconnect
  \/ \E codes \in ApiLists, withCallback \in BOOLEAN :
       ApiSubscribe(codes, withCallback)
  \/ \E codes \in ApiLists : ApiUnsubscribe(codes)
  \/ ApiClose
  \/ Advance(MaxApiTime)

ApiSpec == Init /\ [][ApiNext]_vars


\* ============================================================== claims

\* every tick appended so far, and the ticks of the bulk_insert_ticks calls
Appended == 1..(next_tick - 1)

HandedToSink == UNION {Range(bulk_calls[i].batch) : i \in DOMAIN bulk_calls}

\* C1: when an append brings the buffer to buffer_size, the flush inside
\* on_tick_received can take the buffer lock, so the call flushes and
\* returns; no thread waits for a lock it holds itself.
C1_AppendAtCapacityFlushes ==
  \A th \in Appenders : pc[th] = "cap_flush" => CanAcquire(th)

\* the flush, monitor and polling threads have all ended and the websocket
\* thread is not inside on_tick_received
Quiescent ==
  /\ \A th \in FlushWorkers \cup {"monitor", "poll"} : pc[th] \in {"none", "done"}
  /\ pc["ws"] \notin {"cap_flush", "blocked"}

\* C2: once stop() has returned and the workers are quiescent, every tick
\* that was appended has been handed to the sink in a bulk insert; none is
\* left in the buffer.
C2_NoTickLeftAfterStop ==
  (pc["ctl"] = "stopped" /\ Quiescent) =>
     (buffer = <<>> /\ Appended \subseteq HandedToSink)

\* the session is connected with instruments registered whose frames reach
\* on_tick_received
StreamingActive ==
  pc["ws"] = "open" /\ (registered \cap callbacks) # {}

\* the polling loop is running
PollingActive == pc["poll"] \in {"iter", "await", "sleep"}

\* C3: a streaming session that can deliver ticks never coexists with a
\* running polling loop.
C3_OneTransportActive == ~(StreamingActive /\ PollingActive)

\* stop() has cleared the running flag
StopCalled == pc["ctl"] \in {"stop_check", "stop_lock", "stop_close", "stopped"}

\* C4: once stop() has cleared is_running, is_running is never true again
\* (nothing restarts the collector: _start_polling_mode, which sets the flag
\* and starts a polling loop and a flush timer, does not run after stop()).
C4_StopIsTerminal == StopCalled => ~is_running


\* the ticks 1..k in the order of their arrival
FirstTicks(k) == [i \in 1..k |-> i]

\* what C5 says of the state in which stop() returns
StopFlushedRemainder ==
  (/\ ~timer_fired
   /\ stop_appended \in 1..(buffer_size - 1)
   /\ next_tick - 1 = stop_appended)
  => /\ Len(bulk_calls) = 1
     /\ bulk_calls[1].batch = FirstTicks(stop_appended)
     /\ bulk_calls[1].by = "ctl"
     /\ buffer = <<>>
     /\ tick_count = stop_appended

\* C5: if k ticks (0 < k < buffer_size) were appended, no flush_job has
\* flushed and nothing is appended while stop() runs, then at the return of
\* stop() exactly one bulk insert has been made, by stop(), holding the k
\* ticks; the buffer is empty and tick_count is k.
C5_StopFlushesRemainder ==
  [][(pc["ctl"] = "stop_close" /\ pc'["ctl"] = "stopped")
       => StopFlushedRemainder']_vars

C5_Witness ==
  /\ pc["ctl"] = "stopped"
  /\ ~timer_fired
  /\ stop_appended = 2
  /\ next_tick = 3
  /\ Len(bulk_calls) = 1
  /\ buffer = <<>>

\* the number of bulk inserts a tick was part of
TimesHanded(t) == Cardinality({i \in DOMAIN bulk_calls : t \in Range(bulk_calls[i].batch)})

\* C6: while the collector is running and the buffer stays below capacity, a
\* buffered tick is at most flush_interval old (the flush timer hands it to
\* the sink within one interval); a bulk insert never carries an empty batch
\* and a tick a flush_job handed over is in exactly one bulk insert.
C6_TimerFlush ==
  /\ (is_running /\ buffer # <<>> /\ Len(buffer) < buffer_size)
       => ElapsedSince(buf_since) <= flush_interval
  /\ \A i \in DOMAIN bulk_calls :
       /\ bulk_calls[i].batch # <<>>
       /\ bulk_calls[i].by \in FlushWorkers
            => \A t \in Range(bulk_calls[i].batch) : TimesHanded(t) = 1

C6_Witness ==
  /\ is_running
  /\ Len(bulk_calls) = 1
  /\ bulk_calls[1].by \in FlushWorkers
  /\ Len(bulk_calls[1].batch) = 1
  /\ next_tick = 2


\* the step is a check of monitor_job (it ends the job or starts a new sleep)
MonitorChecks ==
  /\ pc["monitor"] = "sleep"
  /\ pc'["monitor"] = "done" \/ wake'["monitor"] # wake["monitor"]

StartedByFallback == pc["ctl"] \in {"idle", "rejected"} /\ pc["monitor"] = "none"

C9_ModeOneDirectional ==
  /\ [][collection_mode = "polling" => collection_mode' = "polling"]_vars
  /\ [](collection_mode = "polling" => pc["monitor"] \in {"none", "done"})

\* polling after a switch, with the session connected again
C9_Witness ==
  /\ collection_mode = "polling"
  /\ pc["monitor"] = "done"
  /\ pc["ws"] = "open"
  /\ now > start_time

\* C10: start() called while the collector is running is refused and changes
\* nothing: no field of the collector or of the session, no thread other than
\* the caller, no timer and no bulk insert.
C10_IdempotentStart ==
  [][(pc["ctl"] = "idle" /\ is_running /\ pc'["ctl"] \in {"rejected", "start_wait"})
       => /\ pc'["ctl"] = "rejected"
          /\ \A th \in Threads \ {"ctl"} : pc'[th] = pc[th]
          /\ UNCHANGED <<collectorVars, sessionVars, wake, poll_idx,
                         bulk_calls>>]_vars

C10_Witness ==
  /\ pc["ctl"] = "rejected"
  /\ is_running
  /\ collection_mode = "polling"
  /\ tick_count > 0


\* the step is an add_stock or remove_stock call
OpStep == ops' = ops + 1

\* C11: add_stock(code) on an untracked code succeeds and appends exactly that
\* code (one more tracked instrument); on a tracked code it returns a failure
\* result and leaves the list as it is; remove_stock(code) on a tracked code
\* succeeds and takes out exactly that code (one less); on an untracked code
\* it returns a failure result and leaves the list as it is.  Every call
\* returns a result record.
C11_AddRemoveSemantics ==
  [][OpStep =>
       /\ op_result'.op \in {"add", "remove"}
       /\ (op_result'.op = "add" /\ op_result'.code \notin Range(stock_codes))
            => /\ op_result'.success
               /\ Range(stock_codes') = Range(stock_codes) \cup {op_result'.code}
               /\ Len(stock_codes') = Len(stock_codes) + 1
       /\ (op_result'.op = "add" /\ op_result'.code \in Range(stock_codes))
            => (~op_result'.success /\ stock_codes' = stock_codes)
       /\ (op_result'.op = "remove" /\ op_result'.code \in Range(stock_codes))
            => /\ op_result'.success
               /\ Range(stock_codes') = Range(stock_codes) \ {op_result'.code}
               /\ Len(stock_codes') = Len(stock_codes) - 1
       /\ (op_result'.op = "remove" /\ op_result'.code \notin Range(stock_codes))
            => (~op_result'.success /\ stock_codes' = stock_codes)]_vars

\* "A" was removed and a second remove_stock("A") was refused
C11_Witness ==
  /\ op_result = [op |-> "remove", code |-> "A", success |-> FALSE]
  /\ ops = 2
  /\ stock_codes = <<"B">>
  /\ is_running

\* the collector is running in websocket mode with its session connected
Streaming == is_running /\ collection_mode = "websocket" /\ is_connected

\* C12: after a successful remove_stock(code) in streaming mode the session
\* does not deliver ticks of that code any more (the instrument is no longer
\* registered upstream with a callback in place).
C12_RemoveUnsubscribes ==
  [][(OpStep /\ Streaming /\ op_result'.op = "remove" /\ op_result'.success)
       => op_result'.code \notin (registered' \cap callbacks')]_vars

\* C13: when the session of a running collector in websocket mode opens, it
\* sends one REG frame on the new connection, whose instruments are the
\* tracked instruments.
C13_ReconnectResubscribesTracked ==
  [][(pc["ws"] = "connecting" /\ pc'["ws"] = "open" /\ is_running
      /\ collection_mode = "websocket")
       => /\ Len(reg_frames') = 1
          /\ Range(reg_frames'[1]) = Range(stock_codes)]_vars

\* C14: a successful add_stock(code) in streaming mode sends one REG frame
\* with exactly that code and puts the callback for the code in place (the
\* upstream has the instrument registered afterwards); in polling mode it
\* sends no frame and changes nothing of the session's registrations.
C14_AddSubscribesWhenStreaming ==
  [][(OpStep /\ op_result'.op = "add" /\ op_result'.success) =>
       /\ Streaming
            => /\ reg_frames' = Append(reg_frames, <<op_result'.code>>)
               /\ op_result'.code \in callbacks'
               /\ op_result'.code \in registered'
       /\ collection_mode = "polling"
            => (reg_frames' = reg_frames /\ registered' = registered
                /\ callbacks' = callbacks)]_vars

\* "C" was added while streaming: the start frame, then the frame for "C"
C14_Witness ==
  /\ op_result = [op |-> "add", code |-> "C", success |-> TRUE]
  /\ Streaming
  /\ reg_frames = <<InitialCodes, <<"C">> >>
  /\ "C" \in registered \cap callbacks


\* a flush_job was started by the step and sleeps its first interval
FlushTimerStarted ==
  \E f \in FlushWorkers :
    /\ pc[f] = "none"
    /\ pc'[f] = "sleep"
    /\ wake'[f] = now + Units(flush_interval)

\* C16: when start() on an idle collector ends its wait, then, if the session
\* is not connected, the collector is running in polling mode, the polling
\* loop and a flush timer are started and the monitor is not; if the session
\* is connected, the collector is running in websocket mode, a flush timer
\* and the monitor are started and the polling loop is not.
C16_StartOutcome ==
  [][(pc["ctl"] = "start_wait" /\ pc'["ctl"] # "start_wait") =>
       /\ is_running'
       /\ FlushTimerStarted
       /\ ~is_connected
            => /\ collection_mode' = "polling"
               /\ pc["poll"] = "none" /\ pc'["poll"] = "iter"
               /\ pc'["monitor"] = "none"
       /\ is_connected
            => /\ collection_mode' = "websocket"
               /\ pc["monitor"] = "none" /\ pc'["monitor"] = "sleep"
               /\ wake'["monitor"] = now + Units(monitor_interval)
               /\ pc'["poll"] = "none"]_vars

\* start() found the session connected: streaming, flush timer and monitor
C16_Witness ==
  /\ pc["ctl"] = "idle"
  /\ is_running
  /\ collection_mode = "websocket"
  /\ start_time = now
  /\ pc["flush1"] = "sleep"
  /\ pc["monitor"] = "sleep"
  /\ pc["poll"] = "none"

\* the step is a bulk_insert_ticks call that raised
InsertFailed ==
  /\ Len(bulk_calls') = Len(bulk_calls) + 1
  /\ ~bulk_calls'[Len(bulk_calls')].ok

\* C17: when bulk_insert_ticks raises inside _flush, the caller goes on as
\* after a flush that worked (the flush_job to its next sleep or its end,
\* stop() to closing the session), the buffer is empty and unlocked; the
\* ticks of the failed batch are in no other bulk insert and not in the
\* buffer.
C17_FailedInsertSwallowed ==
  /\ [][InsertFailed =>
          /\ \A f \in FlushWorkers :
               bulk_calls'[Len(bulk_calls')].by = f
                 => pc'[f] = IF is_running THEN "sleep" ELSE "done"
          /\ bulk_calls'[Len(bulk_calls')].by = "ctl"
               => pc'["ctl"] = "stop_close"
          /\ buffer' = <<>>
          /\ buffer_lock' = Free]_vars
  /\ [](\A i \in DOMAIN bulk_calls :
          ~bulk_calls[i].ok =>
             \A t \in Range(bulk_calls[i].batch) :
                TimesHanded(t) = 1 /\ t \notin Range(buffer))

\* the insert of tick 1 failed; tick 2, appended later, was flushed and
\* inserted
C17_Witness ==
  /\ Len(bulk_calls) = 2
  /\ ~bulk_calls[1].ok /\ bulk_calls[1].batch = <<1>>
  /\ bulk_calls[2].ok /\ bulk_calls[2].batch = <<2>>
  /\ bulk_calls[2].by \in FlushWorkers


\* a polling cycle ends because the list of instruments is exhausted
CycleEnds ==
  /\ pc["poll"] = "iter" /\ pc'["poll"] = "sleep"
  /\ is_running
  /\ poll_idx > Len(stock_codes)

\* the number of requests for instrument c in the current cycle
TimesRequested(c) == Cardinality({i \in DOMAIN cycle_req : cycle_req[i] = c})

\* C18: when a polling cycle has gone through the list, every instrument
\* that was tracked from the beginning of the cycle to its end was requested
\* exactly once in it, whatever add_stock and remove_stock did meanwhile.
C18_CycleVisitsEachTrackedOnce ==
  [][CycleEnds => \A c \in cycle_stable : TimesRequested(c) = 1]_vars

\* C19: a connection attempt of the session that fails adds one to
\* websocket_failure_count, the counter monitor_job compares with
\* max_websocket_failures.
C19_FailedConnectCounted ==
  [][(pc["ws"] = "connecting" /\ pc'["ws"] \in {"backoff", "failed"})
       => websocket_failure_count' = websocket_failure_count + 1]_vars

\* min(60, 2^n) seconds for n = 0..9
ExpectedWait == <<1, 2, 4, 8, 16, 32, 60, 60, 60, 60>>

\* C20: the reconnect numbered n (n failed reconnects since the last open)
\* waits ExpectedWait[n + 1] = min(60, 2^n) seconds and is made only after
\* that wait; an open resets the count to 0; the count never exceeds
\* max_reconnect_attempts, and once the session has given up it never
\* connects again.
C20_CappedBackoff ==
  /\ [](pc["ws"] = "backoff" =>
          /\ reconnect_attempts < max_reconnect_attempts
          /\ wait_time = ExpectedWait[reconnect_attempts + 1])
  /\ [][(pc["ws"] # "backoff" /\ pc'["ws"] = "backoff")
          => wake'["ws"] = now + Units(wait_time')]_vars
  /\ [][(pc["ws"] = "backoff" /\ pc'["ws"] = "connecting")
          => (now >= wake["ws"]
              /\ reconnect_attempts' = reconnect_attempts + 1)]_vars
  /\ [][(pc["ws"] = "connecting" /\ pc'["ws"] = "open")
          => reconnect_attempts' = 0]_vars
  /\ [](reconnect_attempts <= max_reconnect_attempts)
  /\ [][pc["ws"] = "failed"
          => (pc'["ws"] = "failed" /\ ~is_connected'
              /\ reconnect_attempts' = max_reconnect_attempts)]_vars

\* ten reconnects in a row failed and the session has given up
C20_Witness ==
  /\ pc["ws"] = "failed"
  /\ reconnect_attempts = max_reconnect_attempts
  /\ ~is_connected
  /\ ElapsedSince(0) >= 303

\* a pass of polling_job over the list ends while the collector is running
CycleOver ==
  /\ pc["poll"] \in {"iter", "await"} /\ pc'["poll"] = "sleep"
  /\ is_running

\* C21: a snapshot request that fails (return_code other than 0, or an
\* exception) appends no tick and does not end the cycle: when a cycle of a
\* running collector is over, every tracked instrument has been requested in
\* it.
C21_FailedRequestKeepsCycle ==
  /\ [][(pc["poll"] = "await" /\ pc'["poll"] = "sleep")
          => UNCHANGED <<buffer, tick_count>>]_vars
  /\ [][CycleOver => Range(stock_codes) \subseteq Range(cycle_req')]_vars

\* the background workers of the collector
Workers == {"poll", "monitor"} \cup FlushWorkers

\* C22: after stop() has cleared is_running, the polling loop, the flush
\* timers and the monitor wind down: a worker that has exited (or was never
\* started) stays so, and the polling loop issues no further snapshot
\* request.
C22_CooperativeShutdown ==
  [][StopCalled =>
       /\ \A th \in Workers :
            pc[th] \in {"none", "done"} => pc'[th] = pc[th]
       /\ pc'["poll"] = "await" => pc["poll"] = "await"]_vars

\* C23: subscribe_tick and unsubscribe on a session that is not connected
\* are no-ops: no REG or REMOVE frame is sent, and the callback table and the
\* remembered subscription list are left as they were.
C23_DisconnectedNoOp ==
  [][(ops' = ops + 1 /\ op_result'.op \in {"subscribe", "unsubscribe"}
        /\ ~is_connected)
       => UNCHANGED <<callbacks, subscribed_stocks, registered, reg_frames,
                      remove_frames>>]_vars

\* subscribe_tick has been called for "C" while the session, which had
\* subscriptions and callbacks, was not connected
C23_Witness ==
  /\ op_result = [op |-> "subscribe", code |-> "C", success |-> FALSE]
  /\ callbacks # {}
  /\ subscribed_stocks # <<>>
  /\ ~is_connected

\* monitor_job calls _switch_to_polling_mode in this step
SwitchStep ==
  /\ pc["monitor"] = "sleep" /\ pc'["monitor"] = "done"
  /\ collection_mode = "websocket" /\ collection_mode' = "polling"

\* C24: the failover switch keeps what it hands over: the tracked
\* instruments and the buffered ticks are unchanged, and the polling loop it
\* starts begins a cycle at the head of that same list.
C24_SwitchKeepsData ==
  [][SwitchStep =>
       /\ stock_codes' = stock_codes
       /\ buffer' = buffer
       /\ pc'["poll"] = "iter" /\ poll_idx' = 1
       /\ cycle_stable' = Range(stock_codes)]_vars

\* the switch has just happened with ticks in the buffer
C24_Witness ==
  /\ collection_mode = "polling" /\ pc["monitor"] = "done"
  /\ ws_client = "none"
  /\ start_time = now
  /\ pc["poll"] = "iter" /\ poll_idx = 1 /\ cycle_req = <<>>
  /\ buffer # <<>>
  /\ stock_codes = InitialCodes

\* C25: the buffer never holds more than buffer_size ticks, however the
\* appends interleave with the flushes of the timer, of the size test and of
\* stop().
C25_BufferBounded == Len(buffer) <= buffer_size

\* the buffer is full after a flush has already handed ticks to the sink
C25_Witness ==
  /\ Len(buffer) = buffer_size
  /\ bulk_calls # <<>>
  /\ next_tick > buffer_size + 1

\* tick t occurs once at most in the batch s
OnceIn(s, t) == Cardinality({i \in 1..Len(s) : s[i] = t}) <= 1

\* C26: no tick is handed to the sink twice: the batches of the
\* bulk_insert_ticks calls (of the flush timers, of the size test and of
\* stop()) are pairwise disjoint and none holds a tick twice.
C26_NoTickHandedTwice ==
  /\ \A i, j \in DOMAIN bulk_calls :
       i # j => Range(bulk_calls[i].batch) \cap Range(bulk_calls[j].batch) = {}
  /\ \A i \in DOMAIN bulk_calls, t \in Appended : OnceIn(bulk_calls[i].batch, t)

\* a flush timer and stop() have each handed a batch to the sink
C26_Witness ==
  /\ \E i \in DOMAIN bulk_calls : bulk_calls[i].by \in FlushWorkers
  /\ \E i \in DOMAIN bulk_calls : bulk_calls[i].by = "ctl"
  /\ pc["ctl"] = "stopped"

\* close() has been called on the session start() created: by
\* _switch_to_polling_mode (which also forgets the session) or by stop()
SessionClosed ==
  /\ pc["ws"] # "none"
  /\ ws_client = "none" \/ pc["ctl"] = "stopped"

\* C27: after close() the session makes no further connection attempt and
\* is never connected again (so it delivers no further tick).
C27_ClosedSessionStaysClosed ==
  SessionClosed => pc["ws"] \notin {"connecting", "open"}

\* C28: while the collector is running, tick_count never decreases and is
\* the number of ticks appended to the buffer since start(), across a
\* switch from websocket to polling as well.
C28_TickCountCountsAppends ==
  /\ [](is_running => tick_count = Cardinality(Appended))
  /\ [][(is_running /\ is_running') => tick_count' >= tick_count]_vars

\* C29: stock_codes never holds the same code twice, however the add_stock
\* and remove_stock calls interleave with each other and with the other
\* threads.
C29_NoDuplicateTracked ==
  \A i, j \in 1..Len(stock_codes) : i # j => stock_codes[i] # stock_codes[j]

\* the flush_job threads that have been started and have not ended
AliveFlushWorkers == {f \in FlushWorkers : pc[f] \notin {"none", "done"}}

\* C30: at most one flush_job thread is alive at any time, after a switch
\* from websocket to polling as well.
C30_OneFlushWorker == Cardinality(AliveFlushWorkers) <= 1

====
